---- MODULE Spec2Model ----
(***************************************************************************)
(* generic_repository: the mapper composition algebra (mapper.py) and the  *)
(* mapped-repository adapter built on it (composition.py).                 *)
(*                                                                         *)
(* Python objects are tagged tuples, the tag first:                        *)
(*   <<"int", n>>  <<"str", s>>  <<"None">>  <<"dict", kw>>                *)
(*   <<"list", seq>>  <<"tuple", seq>>  <<"set", S>>  <<"frozenset", S>>   *)
(*   <<"obj", cls, x, y>>  <<"function", name>>  <<"type", name>>          *)
(*   <<"class", name>> (a class object)  <<"factory", ret>>                *)
(*   <<"FakeMapper">> (an instance of a class that is no Mapper)           *)
(* and the mapper instances                                                *)
(*   <<"LambdaMapper", func, reverse_func>>  <<"ToFunctionArgsMapper">>    *)
(*   <<"ConstructorMapper", cls>>  <<"DecoratedMapper", first, second>>    *)
(*   <<"OffsetMapper">> (a user subclass of Mapper that reads its options) *)
(* A keyword mapping (a dict with str keys, **kwargs) is a function on     *)
(* Keys whose value Absent marks a key the mapping does not hold.          *)
(* The outcome of a call is <<"ok", value>> or <<"raise", exception>>; an  *)
(* operation whose result the language leaves open (the iteration order of *)
(* a set) yields the set of its possible outcomes.                         *)
(***************************************************************************)
EXTENDS Integers, Sequences, FiniteSets, TLC

VARIABLES
    target,     \* mapper algebra: the mapper object under construction
    built,      \* mapper algebra: how `target` was constructed
    call,       \* mapper algebra: the last call made and its outcome
    adapter,    \* MappedRepository: its six attributes
    store,      \* underlying repository: internal id -> item
    tasks       \* the MappedRepository calls: not begun, in flight, finished

mapperVars == <<target, built, call>>
repoVars == <<adapter, store, tasks>>
vars == <<target, built, call, adapter, store, tasks>>

----------------------------------------------------------------------------
(* Bounds of the model. *)

MaxLeaves == 3      \* leaf mappers in a composite
MaxInt == 2         \* integer inputs are 0..MaxInt
MaxLen == 2         \* length of the list and tuple inputs
MaxTasks == 2       \* concurrently issued MappedRepository calls
MaxItems == 2       \* items the underlying repository can hold

----------------------------------------------------------------------------
(* Python values. *)

Keys == {"x", "y"}
Absent == <<"absent">>
None == <<"None">>
PyInt(n) == <<"int", n>>
PyStr(s) == <<"str", s>>
PyDict(kw) == <<"dict", kw>>
PyList(s) == <<"list", s>>
PyTuple(s) == <<"tuple", s>>
PySet(S) == <<"set", S>>
PyFrozenSet(S) == <<"frozenset", S>>

Ok(v) == <<"ok", v>>
Raise(e) == <<"raise", e>>
IsOk(r) == r[1] = "ok"

NoKwargs == [k \in Keys |-> Absent]
KwKeys(kw) == {k \in Keys : kw[k] # Absent}

\* dict.update(other): the entries of `other` override those of `kw`.
DictUpdate(kw, other) == [k \in Keys |-> IF other[k] # Absent THEN other[k] ELSE kw[k]]

RECURSIVE Perms(_)
\* Every order in which the elements of a finite set can be iterated.
Perms(S) ==
    IF S = {} THEN { <<>> }
    ELSE UNION { { <<e>> \o p : p \in Perms(S \ {e}) } : e \in S }

\* iter(v): the sequences a Python iteration over v can produce; {} when v is
\* not iterable.  A dict iterates its keys in insertion order, which the
\* keyword mapping does not record: any order.
Iterations(v) ==
    CASE v[1] \in {"list", "tuple"} -> { v[2] }
      [] v[1] \in {"set", "frozenset"} -> Perms(v[2])
      [] v[1] = "dict" -> Perms({ PyStr(k) : k \in KwKeys(v[2]) })
      [] v[1] = "str" -> { <<v>> }
      [] OTHER -> {}

----------------------------------------------------------------------------
(* The callables handed to LambdaMapper: user functions on numbers.  Each  *)
(* raises TypeError on an operand that is no number.                       *)

Function(name) == <<"function", name>>

CallFunction(name, v) ==
    IF v[1] # "int" THEN Raise("TypeError")
    ELSE CASE name = "inc" -> Ok(PyInt(v[2] + 1))          \* lambda x: x + 1
           [] name = "dec" -> Ok(PyInt(v[2] - 1))          \* lambda x: x - 1
           [] name = "neg" -> Ok(PyInt(0 - v[2]))          \* lambda x: -x
           [] name = "inv" ->                            \* lambda x: 6 // x
                IF v[2] = 0 THEN Raise("ZeroDivisionError")
                ELSE Ok(PyInt(IF v[2] > 0 THEN 6 \div v[2] ELSE 0 - ((6 + (0 - v[2]) - 1) \div (0 - v[2]))))

\* obj(v) for an arbitrary object in the position of a callable.
CallObject(obj, v) ==
    IF obj[1] = "function" THEN CallFunction(obj[2], v) ELSE Raise("TypeError")

----------------------------------------------------------------------------
(* mapper.py: the Mapper base class and the leaf mappers. *)

MapperTags == {"LambdaMapper", "ToFunctionArgsMapper", "ConstructorMapper",
               "DecoratedMapper", "OffsetMapper"}

\* isinstance(obj, Mapper)
IsMapper(obj) == obj[1] \in MapperTags

\* callable(obj): functions, classes and factories, and every Mapper (it
\* defines __call__).
Callable(obj) == obj[1] \in {"function", "type", "class", "factory"} \/ IsMapper(obj)

LambdaMapper(func, reverse_func) == <<"LambdaMapper", func, reverse_func>>
ToFunctionArgsMapper == <<"ToFunctionArgsMapper">>
OffsetMapper == <<"OffsetMapper">>

\* _Arguments(args, kwargs): a named tuple, equal to the plain pair.
Arguments(args, kwargs) == PyTuple(<<PyTuple(args), PyDict(kwargs)>>)

\* The base class answers with its argument.
Mapper_reverse_map_Identity(self, out, kwargs) == { Ok(out) }

\* Mapper.reverse_map: the base class has no reverse.
Mapper_reverse_map(self, out, kwargs) == { Raise("NotImplementedError") }

\* LambdaMapper.map_item: the keyword options are not passed to func.
LambdaMapper_map_item(self, item, kwargs) == { CallObject(self[2], item) }

LambdaMapper_reverse_map(self, out, kwargs) ==
    IF self[3] # None THEN { CallObject(self[3], out) }
    ELSE Mapper_reverse_map(self, out, kwargs)

\* The isinstance tests widened to every mapping, sequence and set.
ToFunctionArgsMapper_body_Abstract(item, default_kwargs) ==
    LET kwargs0 == DictUpdate(NoKwargs, default_kwargs)
    IN  IF item[1] = "dict"
        THEN { [args |-> <<>>, kwargs |-> DictUpdate(kwargs0, item[2]), item |-> item,
                raised |-> "" ] }
        ELSE IF item[1] \in {"tuple", "list", "set", "frozenset", "str"}
        THEN { [args |-> s, kwargs |-> kwargs0, item |-> item, raised |-> ""]
               : s \in Iterations(item) }
        ELSE { [args |-> <<>>, kwargs |-> kwargs0, item |-> item, raised |-> "TypeError"] }

\* ToFunctionArgsMapper.map_item as the run of its body: the locals args and
\* kwargs and the caller's item after the last statement, with the outcome.
ToFunctionArgsMapper_body(item, default_kwargs) ==
    LET kwargs0 == DictUpdate(NoKwargs, default_kwargs)
    IN  IF item[1] = "dict"
        THEN { [args |-> <<>>, kwargs |-> DictUpdate(kwargs0, item[2]), item |-> item,
                raised |-> "" ] }
        ELSE IF item[1] \in {"tuple", "list", "set"}
        THEN { [args |-> s, kwargs |-> kwargs0, item |-> item, raised |-> ""]
               : s \in Iterations(item) }
        ELSE { [args |-> <<>>, kwargs |-> kwargs0, item |-> item, raised |-> "TypeError"] }

ToFunctionArgsMapper_map_item(self, item, default_kwargs) ==
    { IF e.raised # "" THEN Raise(e.raised) ELSE Ok(Arguments(e.args, e.kwargs))
      : e \in ToFunctionArgsMapper_body(item, default_kwargs) }

\* The caller's object after map_item returned or raised.
ToFunctionArgsMapper_item_after(item, default_kwargs) ==
    { e.item : e \in ToFunctionArgsMapper_body(item, default_kwargs) }

\* Point(*pos, **kw) for the dataclass Point(x, y) of the doctest.
PointInit(pos, kw) ==
    LET fields == <<"x", "y">>
        bound(i) == i <= Len(pos)
    IN  IF Len(pos) > Len(fields) THEN Raise("TypeError")
        ELSE IF \E k \in KwKeys(kw) : \A i \in 1..Len(fields) : fields[i] # k
        THEN Raise("TypeError")
        ELSE IF \E i \in 1..Len(fields) : bound(i) /\ kw[fields[i]] # Absent
        THEN Raise("TypeError")
        ELSE IF \E i \in 1..Len(fields) : ~bound(i) /\ kw[fields[i]] = Absent
        THEN Raise("TypeError")
        ELSE LET val(i) == IF bound(i) THEN pos[i] ELSE kw[fields[i]]
             IN  Ok(<<"obj", "Point", val(1), val(2)>>)

\* cls(*args, **kw)
Construct(cls, args, kw) ==
    IF kw[1] # "dict" \/ Iterations(args) = {} THEN { Raise("TypeError") }
    ELSE { PointInit(pos, kw[2]) : pos \in Iterations(args) }

\* ConstructorMapper.map_item: `args, kw = item`, then the constructor call.
ConstructorMapper_map_item(self, item, kwargs) ==
    IF Iterations(item) = {} THEN { Raise("TypeError") }
    ELSE UNION { IF Len(s) # 2 THEN { Raise("ValueError") }
                 ELSE Construct(self[2], s[1], s[2])
                 : s \in Iterations(item) }

\* kwargs.get("x", 0)
OffsetOf(kwargs) == IF kwargs["x"] = Absent THEN PyInt(0) ELSE kwargs["x"]

\* A user subclass of Mapper whose two directions read the options:
\*   map_item(item, **kw) = item + kw.get("x", 0), reverse_map the inverse.
OffsetMapper_map_item(self, item, kwargs) ==
    IF item[1] # "int" \/ OffsetOf(kwargs)[1] # "int" THEN { Raise("TypeError") }
    ELSE { Ok(PyInt(item[2] + OffsetOf(kwargs)[2])) }

OffsetMapper_reverse_map(self, out, kwargs) ==
    IF out[1] # "int" \/ OffsetOf(kwargs)[1] # "int" THEN { Raise("TypeError") }
    ELSE { Ok(PyInt(out[2] - OffsetOf(kwargs)[2])) }

----------------------------------------------------------------------------
(* mapper.py: DecoratedMapper and Mapper.chain. *)

RECURSIVE map_item(_, _, _)
RECURSIVE reverse_map(_, _, _)

\* The exceptions among the outcomes of an inner call: each ends the outer call.
Raised(outcomes) == { r \in outcomes : ~IsOk(r) }

\* The values among the outcomes of an inner call: the outer call goes on.
Returned(outcomes) == { r[2] : r \in { o \in outcomes : IsOk(o) } }

\* DecoratedMapper.__init__
DecoratedMapper(first, second) ==
    IF ~IsMapper(first) THEN Raise("TypeError")
    ELSE IF ~IsMapper(second) THEN Raise("TypeError")
    ELSE Ok(<<"DecoratedMapper", first, second>>)

\* The second mapper runs with no options.
DecoratedMapper_map_item_DropOptions(self, item, kwargs) ==
    LET inner == map_item(self[2], item, kwargs)
    IN  Raised(inner) \cup UNION { map_item(self[3], v, NoKwargs) : v \in Returned(inner) }

DecoratedMapper_map_item(self, item, kwargs) ==
    LET inner == map_item(self[2], item, kwargs)
    IN  Raised(inner) \cup UNION { map_item(self[3], v, kwargs) : v \in Returned(inner) }

\* The reverse runs in the forward order.
DecoratedMapper_reverse_map_Forward(self, out, kwargs) ==
    LET inner == reverse_map(self[2], out, kwargs)
    IN  Raised(inner) \cup UNION { reverse_map(self[3], v, kwargs) : v \in Returned(inner) }

\* A failure of the second mapper's reverse is swallowed.
DecoratedMapper_reverse_map_Swallow(self, out, kwargs) ==
    LET first(v) == reverse_map(self[2], v, kwargs)
    IN  UNION { IF IsOk(r) THEN first(r[2]) ELSE first(out)
                : r \in reverse_map(self[3], out, kwargs) }

DecoratedMapper_reverse_map(self, out, kwargs) ==
    LET inner == reverse_map(self[3], out, kwargs)
    IN  Raised(inner) \cup UNION { reverse_map(self[2], v, kwargs) : v \in Returned(inner) }

\* mapper.map_item(item, **kwargs), by the class of the mapper.
map_item(m, item, kwargs) ==
    CASE m[1] = "LambdaMapper" -> LambdaMapper_map_item(m, item, kwargs)
      [] m[1] = "ToFunctionArgsMapper" -> ToFunctionArgsMapper_map_item(m, item, kwargs)
      [] m[1] = "ConstructorMapper" -> ConstructorMapper_map_item(m, item, kwargs)
      [] m[1] = "OffsetMapper" -> OffsetMapper_map_item(m, item, kwargs)
      [] m[1] = "DecoratedMapper" -> DecoratedMapper_map_item(m, item, kwargs)

\* mapper.reverse_map(out, **kwargs), by the class of the mapper.
reverse_map(m, out, kwargs) ==
    CASE m[1] = "LambdaMapper" -> LambdaMapper_reverse_map(m, out, kwargs)
      [] m[1] = "OffsetMapper" -> OffsetMapper_reverse_map(m, out, kwargs)
      [] m[1] = "DecoratedMapper" -> DecoratedMapper_reverse_map(m, out, kwargs)
      [] OTHER -> Mapper_reverse_map(m, out, kwargs)

\* Mapper.__call__
Mapper_call(self, input, kwds) == map_item(self, input, kwds)

\* mapper(*mapper_args) for the callable handed to chain: a class of this
\* module, a class that is no Mapper, a user function or a factory.
Instantiate(callee, mapper_args) ==
    LET n == Len(mapper_args)
    IN  CASE callee[1] = "factory" ->
               IF n = 0 THEN Ok(callee[2]) ELSE Raise("TypeError")
          [] callee[1] = "function" ->
               IF n = 1 THEN CallFunction(callee[2], mapper_args[1]) ELSE Raise("TypeError")
          [] callee[1] = "type" ->
               PointInit(mapper_args, NoKwargs)
          [] callee = <<"class", "LambdaMapper">> ->
               IF n = 1 THEN Ok(LambdaMapper(mapper_args[1], None))
               ELSE IF n = 2 THEN Ok(LambdaMapper(mapper_args[1], mapper_args[2]))
               ELSE Raise("TypeError")
          [] callee = <<"class", "ToFunctionArgsMapper">> ->
               IF n = 0 THEN Ok(ToFunctionArgsMapper) ELSE Raise("TypeError")
          [] callee = <<"class", "ConstructorMapper">> ->
               IF n # 1 THEN Raise("TypeError")
               ELSE IF mapper_args[1][1] \notin {"type", "class"} THEN Raise("AssertionError")
               ELSE Ok(<<"ConstructorMapper", mapper_args[1]>>)
          [] callee = <<"class", "DecoratedMapper">> ->
               IF n = 2 THEN DecoratedMapper(mapper_args[1], mapper_args[2])
               ELSE Raise("TypeError")
          [] callee = <<"class", "FakeMapper">> ->
               IF n = 0 THEN Ok(<<"FakeMapper">>) ELSE Raise("TypeError")

\* Mapper.chain
Mapper_chain(self, mapper, mapper_args) ==
    IF Callable(mapper)
    THEN IF IsMapper(mapper) THEN DecoratedMapper(self, mapper)
         ELSE LET made == Instantiate(mapper, mapper_args)
              IN  IF IsOk(made) THEN DecoratedMapper(self, made[2]) ELSE made
    ELSE Raise("TypeError")

----------------------------------------------------------------------------
(* The mapper algebra as a state machine: a mapper is built from the leaf  *)
(* mappers by chain and by DecoratedMapper, and called in both directions. *)

Point == <<"type", "Point">>

Leaves ==
    { LambdaMapper(Function("inc"), Function("dec")),
      LambdaMapper(Function("inv"), Function("inv")),
      LambdaMapper(Function("inc"), None),
      ToFunctionArgsMapper,
      <<"ConstructorMapper", Point>>,
      OffsetMapper }

\* Objects that are no Mapper and are not callable.
NonCallables == { PyStr("x"), <<"FakeMapper">>, None }

\* What chain is given as `mapper`, with its mapper_args.
ChainForms ==
    { <<l, <<>>>> : l \in Leaves }
    \cup { << <<"class", "LambdaMapper">>, <<Function("inc"), Function("dec")>> >>,
           << <<"class", "ToFunctionArgsMapper">>, <<>> >>,
           << <<"class", "ConstructorMapper">>, <<Function("inc")>> >>,
           << <<"class", "FakeMapper">>, <<>> >>,
           << <<"factory", OffsetMapper>>, <<>> >>,
           << <<"factory", PyInt(1)>>, <<>> >>,
           << Function("inc"), <<PyInt(1)>> >> }
    \cup { <<o, <<>>>> : o \in NonCallables }

\* The number of leaf mappers of a mapper.
RECURSIVE LeafCount(_)
LeafCount(m) ==
    IF m[1] = "DecoratedMapper" THEN LeafCount(m[2]) + LeafCount(m[3]) ELSE 1

Base == <<4, 5, 6, 7>>
Prefix(n) == [i \in 1..n |-> PyInt(Base[i])]

\* The option bags a call is made with.
Options ==
    { NoKwargs,
      [k \in Keys |-> IF k = "x" THEN PyInt(1) ELSE Absent],
      [k \in Keys |-> IF k = "y" THEN PyInt(5) ELSE Absent] }

Dicts ==
    { [k \in Keys |-> IF k = "x" THEN PyInt(3) ELSE Absent],
      [k \in Keys |-> IF k = "x" THEN PyInt(4) ELSE PyInt(5)] }

Numbers == { PyInt(n) : n \in 0..MaxInt }

\* The values map is called with.
Items ==
    Numbers
    \cup { PyStr("x"), None }
    \cup { PyDict(d) : d \in Dicts }
    \cup { PyList(Prefix(n)) : n \in 0..MaxLen }
    \cup { PyTuple(Prefix(n)) : n \in 0..MaxLen }
    \cup { PySet({}), PySet({PyInt(4), PyInt(5)}), PyFrozenSet({PyInt(4)}) }
    \cup { Arguments(Prefix(2), NoKwargs),
           Arguments(Prefix(1), [k \in Keys |-> IF k = "y" THEN PyInt(5) ELSE Absent]),
           Arguments(Prefix(0), [k \in Keys |-> IF k = "x" THEN PyInt(4) ELSE PyInt(5)]) }

\* The values reverse_map is called with.
Outs == Numbers \cup { PyStr("x") }

NoCall == [op |-> "none", self |-> None, arg |-> None, args |-> <<>>,
           kwargs |-> NoKwargs, res |-> Ok(None), after |-> None]

AsLeaf == [via |-> "leaf", first |-> None, next |-> None, args |-> <<>>]

\* target = target.chain(mapper, *mapper_args)
Chain ==
    /\ call = NoCall
    /\ LeafCount(target) < MaxLeaves
    /\ UNCHANGED repoVars
    /\ \E form \in ChainForms :
        LET res == Mapper_chain(target, form[1], form[2])
        IN  IF IsOk(res)
            THEN /\ target' = res[2]
                 /\ built' = [via |-> "chain", first |-> target, next |-> form[1],
                              args |-> form[2]]
                 /\ call' = NoCall
            ELSE /\ call' = [op |-> "chain", self |-> target, arg |-> form[1],
                             args |-> form[2], kwargs |-> NoKwargs, res |-> res,
                             after |-> form[1]]
                 /\ UNCHANGED <<target, built>>

\* target = leaf.chain(target): the composite becomes the second operand.
ChainOnto ==
    /\ call = NoCall
    /\ LeafCount(target) < MaxLeaves
    /\ UNCHANGED repoVars
    /\ \E leaf \in Leaves :
        LET res == Mapper_chain(leaf, target, <<>>)
        IN  /\ IsOk(res)
            /\ target' = res[2]
            /\ built' = [via |-> "chain", first |-> leaf, next |-> target, args |-> <<>>]
            /\ call' = NoCall

\* target = DecoratedMapper(first, second), one operand being the target.
Decorate ==
    /\ call = NoCall
    /\ LeafCount(target) < MaxLeaves
    /\ UNCHANGED repoVars
    /\ \E other \in Leaves \cup NonCallables, left \in BOOLEAN :
        LET first == IF left THEN target ELSE other
            second == IF left THEN other ELSE target
            res == DecoratedMapper(first, second)
        IN  IF IsOk(res)
            THEN /\ target' = res[2]
                 /\ built' = [via |-> "DecoratedMapper", first |-> first,
                              next |-> second, args |-> <<>>]
                 /\ call' = NoCall
            ELSE /\ call' = [op |-> "DecoratedMapper", self |-> first, arg |-> second,
                             args |-> <<>>, kwargs |-> NoKwargs, res |-> res,
                             after |-> second]
                 /\ UNCHANGED <<target, built>>

\* target(item, **kwargs)
CallMap ==
    /\ call = NoCall
    /\ UNCHANGED <<target, built>>
    /\ UNCHANGED repoVars
    /\ \E item \in Items, kwargs \in Options :
        \E r \in Mapper_call(target, item, kwargs) :
            \E after \in (IF target = ToFunctionArgsMapper
                           THEN ToFunctionArgsMapper_item_after(item, kwargs)
                           ELSE {item}) :
                call' = [op |-> "map", self |-> target, arg |-> item, args |-> <<>>,
                         kwargs |-> kwargs, res |-> r, after |-> after]

\* target.reverse_map(out, **kwargs)
CallReverse ==
    /\ call = NoCall
    /\ UNCHANGED <<target, built>>
    /\ UNCHANGED repoVars
    /\ \E out \in Outs, kwargs \in Options :
        \E r \in reverse_map(target, out, kwargs) :
            call' = [op |-> "reverse", self |-> target, arg |-> out, args |-> <<>>,
                     kwargs |-> kwargs, res |-> r, after |-> out]

\* The caller takes the outcome of the last call.
Return ==
    /\ call # NoCall
    /\ call' = NoCall
    /\ UNCHANGED <<target, built>>
    /\ UNCHANGED repoVars

InitMapper ==
    /\ target \in Leaves
    /\ built = AsLeaf
    /\ call = NoCall
    /\ adapter = None
    /\ store = <<>>
    /\ tasks = <<>>

NextMapper == Chain \/ ChainOnto \/ Decorate \/ CallMap \/ CallReverse \/ Return

SpecMapper == InitMapper /\ [][NextMapper]_vars

----------------------------------------------------------------------------
(* The underlying Repository: the CRUD contract over a store of items.     *)
(* A request is what MappedRepository passes to one of its operations.     *)

NoRequest == [op |-> "none", id |-> None, payload |-> None, offset |-> None,
              size |-> None, kwargs |-> NoKwargs]
Request(op, id, payload, offset, size, kwargs) ==
    [op |-> op, id |-> id, payload |-> payload, offset |-> offset, size |-> size,
     kwargs |-> kwargs]

ItemIds == 1..MaxItems
Held(st) == { i \in ItemIds : st[i] # Absent }
Exists(st, id) == id[1] = "int" /\ id[2] \in Held(st)

\* Backend-side validation of a payload.
ValidPayload(p) == p[1] = "int" /\ p[2] >= 0 /\ p[2] <= MaxInt

\* The filter x=v keeps the items equal to v.
Matches(item, filters) == filters["x"] = Absent \/ item = filters["x"]

RECURSIVE Listing(_, _, _)
\* The items of ids i..MaxItems that match, in the order of their ids.
Listing(st, i, filters) ==
    IF i > MaxItems THEN <<>>
    ELSE (IF st[i] # Absent /\ Matches(st[i], filters) THEN <<st[i]>> ELSE <<>>)
         \o Listing(st, i + 1, filters)

\* seq[offset : offset + size], None leaving the bound open.
Page(seq, offset, size) ==
    LET from == IF offset = None THEN 0 ELSE offset[2]
        upto == IF size = None THEN Len(seq) ELSE from + size[2]
    IN  SubSeq(seq, from + 1, IF upto > Len(seq) THEN Len(seq) ELSE upto)

\* One operation of the underlying repository: the store after it, and its
\* response.  A failing operation leaves the store as it was.
Repository_serve(st, req) ==
    CASE req.op = "get_by_id" ->
           [store |-> st,
            response |-> IF Exists(st, req.id) THEN Ok(st[req.id[2]])
                         ELSE Raise("ItemNotFound")]
      [] req.op = "get_list" ->
           [store |-> st,
            response |-> Ok(PyList(Page(Listing(st, 1, req.kwargs), req.offset, req.size)))]
      [] req.op = "get_count" ->
           [store |-> st, response |-> Ok(PyInt(Len(Listing(st, 1, req.kwargs))))]
      [] req.op = "add" ->
           IF ~ValidPayload(req.payload) \/ Held(st) = ItemIds
           THEN [store |-> st, response |-> Raise("InvalidPayload")]
           ELSE LET id == CHOOSE i \in ItemIds \ Held(st) :
                              \A j \in ItemIds \ Held(st) : i <= j
                IN  [store |-> [st EXCEPT ![id] = req.payload],
                     response |-> Ok(req.payload)]
      [] req.op = "remove" ->
           IF ~Exists(st, req.id) THEN [store |-> st, response |-> Raise("ItemNotFound")]
           ELSE [store |-> [st EXCEPT ![req.id[2]] = Absent], response |-> Ok(None)]
      [] req.op = "update" ->
           IF ~Exists(st, req.id) THEN [store |-> st, response |-> Raise("ItemNotFound")]
           ELSE IF ~ValidPayload(req.payload)
           THEN [store |-> st, response |-> Raise("InvalidPayload")]
           ELSE LET item == PyInt(st[req.id[2]][2] + req.payload[2])
                IN  [store |-> [st EXCEPT ![req.id[2]] = item], response |-> Ok(item)]
      [] req.op = "replace" ->
           IF ~Exists(st, req.id) THEN [store |-> st, response |-> Raise("ItemNotFound")]
           ELSE IF ~ValidPayload(req.payload)
           THEN [store |-> st, response |-> Raise("InvalidPayload")]
           ELSE [store |-> [st EXCEPT ![req.id[2]] = req.payload],
                 response |-> Ok(req.payload)]

----------------------------------------------------------------------------
(* composition.py: MappedRepository.  Each operation is its part up to the *)
(* await of the delegated call, which yields the request or the exception  *)
(* of an input mapper, and its part after the await, which yields the      *)
(* outcome of the call.  `log` lists the calls the operation made.         *)

NotRaised == <<"no">>
Called(who, arg) == <<who, arg>>

\* MappedRepository.__init__
MappedRepository(repository, id_mapper, create_mapper, update_mapper, replace_mapper, item_mapper) ==
    [repository |-> repository, item_mapper |-> item_mapper, id_mapper |-> id_mapper,
     create_mapper |-> create_mapper, update_mapper |-> update_mapper,
     replace_mapper |-> replace_mapper]

Sent(log, req) ==
    [log |-> Append(log, Called("repository", req)), request |-> req, raised |-> NotRaised]
Failed(log, exc) == [log |-> log, request |-> NoRequest, raised |-> exc]

\* The delegated call of an operation with one payload argument.
Begin_payload(op, payload_mapper, name, payload, kwargs) ==
    { IF IsOk(p)
      THEN Sent(<<Called(name, payload)>>, Request(op, None, p[2], None, None, kwargs))
      ELSE Failed(<<Called(name, payload)>>, p)
      : p \in Mapper_call(payload_mapper, payload, NoKwargs) }

\* The delegated call of an operation with an id argument.
Begin_id(op, id_mapper, item_id, kwargs) ==
    { IF IsOk(i)
      THEN Sent(<<Called("id_mapper", item_id)>>, Request(op, i[2], None, None, None, kwargs))
      ELSE Failed(<<Called("id_mapper", item_id)>>, i)
      : i \in Mapper_call(id_mapper, item_id, NoKwargs) }

\* The payload is mapped before the id.
Begin_id_payload_Swapped(op, id_mapper, payload_mapper, name, item_id, payload, kwargs) ==
    UNION { IF ~IsOk(p) THEN { Failed(<<Called(name, payload)>>, p) }
            ELSE { IF IsOk(i)
                   THEN Sent(<<Called(name, payload), Called("id_mapper", item_id)>>,
                             Request(op, i[2], p[2], None, None, kwargs))
                   ELSE Failed(<<Called(name, payload), Called("id_mapper", item_id)>>, i)
                   : i \in Mapper_call(id_mapper, item_id, NoKwargs) }
            : p \in Mapper_call(payload_mapper, payload, NoKwargs) }

\* The delegated call of an operation with an id and a payload argument: the
\* id is mapped first, the payload second.
Begin_id_payload(op, id_mapper, payload_mapper, name, item_id, payload, kwargs) ==
    UNION { IF ~IsOk(i) THEN { Failed(<<Called("id_mapper", item_id)>>, i) }
            ELSE { IF IsOk(p)
                   THEN Sent(<<Called("id_mapper", item_id), Called(name, payload)>>,
                             Request(op, i[2], p[2], None, None, kwargs))
                   ELSE Failed(<<Called("id_mapper", item_id), Called(name, payload)>>, p)
                   : p \in Mapper_call(payload_mapper, payload, NoKwargs) }
            : i \in Mapper_call(id_mapper, item_id, NoKwargs) }

MappedRepository_add(self, payload, kwargs) ==
    Begin_payload("add", self.create_mapper, "create_mapper", payload, kwargs)

MappedRepository_update(self, item_id, payload, kwargs) ==
    Begin_id_payload("update", self.id_mapper, self.update_mapper, "update_mapper",
                     item_id, payload, kwargs)

MappedRepository_get_by_id(self, item_id, kwargs) ==
    Begin_id("get_by_id", self.id_mapper, item_id, kwargs)

MappedRepository_replace(self, item_id, payload, kwargs) ==
    Begin_id_payload("replace", self.id_mapper, self.replace_mapper, "replace_mapper",
                     item_id, payload, kwargs)

MappedRepository_remove(self, item_id, kwargs) ==
    Begin_id("remove", self.id_mapper, item_id, kwargs)

MappedRepository_get_count(self, query_filters) ==
    { Sent(<<>>, Request("get_count", None, None, None, None, query_filters)) }

\* offset and size change places on the way to the repository.
MappedRepository_get_list_Swapped(self, offset, size, query_filters) ==
    { Sent(<<>>, Request("get_list", None, None, size, offset, query_filters)) }

MappedRepository_get_list(self, offset, size, query_filters) ==
    { Sent(<<>>, Request("get_list", None, None, offset, size, query_filters)) }

\* The response translated to the umbrella CRUD exception.
Return_item_Translated(self, response) ==
    IF ~IsOk(response) THEN { [log |-> <<>>, result |-> Raise("CrudException")] }
    ELSE { [log |-> <<Called("item_mapper", response[2])>>, result |-> r]
           : r \in Mapper_call(self.item_mapper, response[2], NoKwargs) }

\* The item mapper used in its reverse direction.
Return_item_Reversed(self, response) ==
    IF ~IsOk(response) THEN { [log |-> <<>>, result |-> response] }
    ELSE { [log |-> <<Called("item_mapper", response[2])>>, result |-> r]
           : r \in reverse_map(self.item_mapper, response[2], NoKwargs) }

\* self.item_mapper(await ...): an exception of the awaited call propagates,
\* a returned item is mapped.
Return_item(self, response) ==
    IF ~IsOk(response) THEN { [log |-> <<>>, result |-> response] }
    ELSE { [log |-> <<Called("item_mapper", response[2])>>, result |-> r]
           : r \in Mapper_call(self.item_mapper, response[2], NoKwargs) }

RECURSIVE MapEach(_, _, _, _, _)
\* [self.item_mapper(item) for item in items], from the i-th item on.
MapEach(self, items, i, mapped, log) ==
    IF i > Len(items) THEN { [log |-> log, result |-> Ok(PyList(mapped))] }
    ELSE UNION { IF IsOk(r)
                 THEN MapEach(self, items, i + 1, Append(mapped, r[2]),
                              Append(log, Called("item_mapper", items[i])))
                 ELSE { [log |-> Append(log, Called("item_mapper", items[i])),
                         result |-> r] }
                 : r \in Mapper_call(self.item_mapper, items[i], NoKwargs) }

Return_list(self, response) ==
    IF ~IsOk(response) THEN { [log |-> <<>>, result |-> response] }
    ELSE IF Iterations(response[2]) = {} THEN { [log |-> <<>>, result |-> Raise("TypeError")] }
    ELSE UNION { MapEach(self, items, 1, <<>>, <<>>) : items \in Iterations(response[2]) }

\* return await ...: get_count hands the response on.
Return_plain(self, response) == { [log |-> <<>>, result |-> response] }

\* await ... with no return: remove returns None.
Return_none(self, response) ==
    { [log |-> <<>>, result |-> IF IsOk(response) THEN Ok(None) ELSE response] }

\* The part of each operation after its await.
MappedRepository_return(self, op, response) ==
    CASE op \in {"add", "update", "get_by_id", "replace"} -> Return_item(self, response)
      [] op = "get_list" -> Return_list(self, response)
      [] op = "get_count" -> Return_plain(self, response)
      [] op = "remove" -> Return_none(self, response)

----------------------------------------------------------------------------
(* MappedRepository under concurrently issued calls.  A call runs to the   *)
(* await of its delegated call, the underlying repository serves it at     *)
(* some later point, and the call resumes at some point after that.        *)

Tasks == 1..MaxTasks
Pending == <<"pending">>

IdleTask ==
    [pc |-> "idle", op |-> "none", item_id |-> None, payload |-> None, offset |-> None,
     size |-> None, kwargs |-> NoKwargs, log |-> <<>>, request |-> NoRequest,
     response |-> Pending, result |-> Pending, wrote |-> FALSE]

\* What the callers pass.
ExtIds == { PyInt(0), PyInt(3), PyInt(6) }
Payloads == { PyInt(0), PyInt(1), PyInt(2), PyStr("x") }
Filters == { NoKwargs, [k \in Keys |-> IF k = "x" THEN PyInt(1) ELSE Absent] }
PageBounds == { None, PyInt(1) }

\* A call that ran to its await, or ended at an input mapper.
Begun(op, item_id, payload, offset, size, kwargs, b) ==
    [IdleTask EXCEPT
        !.pc = IF b.raised = NotRaised THEN "awaiting" ELSE "done",
        !.op = op, !.item_id = item_id, !.payload = payload, !.offset = offset,
        !.size = size, !.kwargs = kwargs, !.log = b.log, !.request = b.request,
        !.result = IF b.raised = NotRaised THEN Pending ELSE b.raised]

\* Calls are issued in the order of their numbers.
CanBegin(t) ==
    /\ tasks[t].pc = "idle"
    /\ \A u \in Tasks : u < t => tasks[u].pc # "idle"

\* The value of the await expression of call t.
Awaited_Shared(ts, t) == ts[1].response

Awaited(ts, t) == ts[t].response

Add(t) ==
    /\ CanBegin(t)
    /\ UNCHANGED <<adapter, store>>
    /\ UNCHANGED mapperVars
    /\ \E payload \in Payloads :
         \E b \in MappedRepository_add(adapter, payload, NoKwargs) :
            tasks' = [tasks EXCEPT ![t] = Begun("add", None, payload, None, None, NoKwargs, b)]

Update(t) ==
    /\ CanBegin(t)
    /\ UNCHANGED <<adapter, store>>
    /\ UNCHANGED mapperVars
    /\ \E item_id \in ExtIds, payload \in Payloads :
         \E b \in MappedRepository_update(adapter, item_id, payload, NoKwargs) :
            tasks' = [tasks EXCEPT
                         ![t] = Begun("update", item_id, payload, None, None, NoKwargs, b)]

GetById(t) ==
    /\ CanBegin(t)
    /\ UNCHANGED <<adapter, store>>
    /\ UNCHANGED mapperVars
    /\ \E item_id \in ExtIds :
         \E b \in MappedRepository_get_by_id(adapter, item_id, NoKwargs) :
            tasks' = [tasks EXCEPT
                         ![t] = Begun("get_by_id", item_id, None, None, None, NoKwargs, b)]

Replace(t) ==
    /\ CanBegin(t)
    /\ UNCHANGED <<adapter, store>>
    /\ UNCHANGED mapperVars
    /\ \E item_id \in ExtIds, payload \in Payloads :
         \E b \in MappedRepository_replace(adapter, item_id, payload, NoKwargs) :
            tasks' = [tasks EXCEPT
                         ![t] = Begun("replace", item_id, payload, None, None, NoKwargs, b)]

GetCount(t) ==
    /\ CanBegin(t)
    /\ UNCHANGED <<adapter, store>>
    /\ UNCHANGED mapperVars
    /\ \E query_filters \in Filters :
         \E b \in MappedRepository_get_count(adapter, query_filters) :
            tasks' = [tasks EXCEPT
                         ![t] = Begun("get_count", None, None, None, None, query_filters, b)]

GetList(t) ==
    /\ CanBegin(t)
    /\ UNCHANGED <<adapter, store>>
    /\ UNCHANGED mapperVars
    /\ \E offset \in PageBounds, size \in PageBounds, query_filters \in Filters :
         \E b \in MappedRepository_get_list(adapter, offset, size, query_filters) :
            tasks' = [tasks EXCEPT
                         ![t] = Begun("get_list", None, None, offset, size, query_filters, b)]

Remove(t) ==
    /\ CanBegin(t)
    /\ UNCHANGED <<adapter, store>>
    /\ UNCHANGED mapperVars
    /\ \E item_id \in ExtIds :
         \E b \in MappedRepository_remove(adapter, item_id, NoKwargs) :
            tasks' = [tasks EXCEPT
                         ![t] = Begun("remove", item_id, None, None, None, NoKwargs, b)]

\* The underlying repository runs the delegated call of t.
Serve(t) ==
    /\ tasks[t].pc = "awaiting"
    /\ UNCHANGED adapter
    /\ UNCHANGED mapperVars
    /\ LET served == Repository_serve(store, tasks[t].request)
       IN  /\ store' = served.store
           /\ tasks' = [tasks EXCEPT ![t].pc = "responded",
                                     ![t].response = served.response,
                                     ![t].wrote = (served.store # store)]

\* Call t resumes after its await and runs to its end.
Resume(t) ==
    /\ tasks[t].pc = "responded"
    /\ UNCHANGED <<adapter, store>>
    /\ UNCHANGED mapperVars
    /\ \E r \in MappedRepository_return(adapter, tasks[t].op, Awaited(tasks, t)) :
         tasks' = [tasks EXCEPT ![t].pc = "done",
                                ![t].log = tasks[t].log \o r.log,
                                ![t].result = r.result]

Init ==
    /\ adapter = MappedRepository("repository",
                                  LambdaMapper(Function("inv"), Function("inv")),
                                  LambdaMapper(Function("dec"), Function("inc")),
                                  LambdaMapper(Function("inc"), Function("dec")),
                                  OffsetMapper,
                                  LambdaMapper(Function("inv"), None))
    /\ store = [i \in ItemIds |-> IF i = 1 THEN PyInt(1) ELSE Absent]
    /\ tasks = [t \in Tasks |-> IdleTask]
    /\ target = ToFunctionArgsMapper
    /\ built = AsLeaf
    /\ call = NoCall

Next ==
    \E t \in Tasks :
        \/ Add(t) \/ Update(t) \/ GetById(t) \/ Replace(t) \/ GetCount(t)
        \/ GetList(t) \/ Remove(t) \/ Serve(t) \/ Resume(t)

Spec == Init /\ [][Next]_vars

----------------------------------------------------------------------------
(* The reference the composition laws are stated against: a composite is   *)
(* the sequence of its leaves, mapped first to last and reversed last to   *)
(* first, the first raise ending the call.                                 *)

RECURSIVE LeavesOf(_)
LeavesOf(m) ==
    IF m[1] = "DecoratedMapper" THEN LeavesOf(m[2]) \o LeavesOf(m[3]) ELSE <<m>>

RECURSIVE FoldMap(_, _, _, _)
FoldMap(ls, i, outcomes, kwargs) ==
    IF i > Len(ls) THEN outcomes
    ELSE FoldMap(ls, i + 1,
                 UNION { IF IsOk(r) THEN map_item(ls[i], r[2], kwargs) ELSE {r}
                         : r \in outcomes },
                 kwargs)

RECURSIVE FoldReverse(_, _, _, _, _)
\* The leaves ls[lo..i] reversed, ls[i] first.
FoldReverse(ls, i, lo, outcomes, kwargs) ==
    IF i < lo THEN outcomes
    ELSE FoldReverse(ls, i - 1, lo,
                     UNION { IF IsOk(r) THEN reverse_map(ls[i], r[2], kwargs) ELSE {r}
                             : r \in outcomes },
                     kwargs)

MapRef(m, item, kwargs) == FoldMap(LeavesOf(m), 1, {Ok(item)}, kwargs)
ReverseRef(m, out, kwargs) ==
    FoldReverse(LeavesOf(m), Len(LeavesOf(m)), 1, {Ok(out)}, kwargs)

\* A mapper with no reverse function: such a leaf, or a composite holding one.
Irreversible(l) ==
    \/ l[1] = "LambdaMapper" /\ l[3] = None
    \/ l[1] \in {"ToFunctionArgsMapper", "ConstructorMapper"}
HasNoReverse(m) == \E i \in 1..Len(LeavesOf(m)) : Irreversible(LeavesOf(m)[i])
Reversible(m) == ~HasNoReverse(m)

----------------------------------------------------------------------------
(* Claims on the mapper algebra (SpecMapper). *)

\* C1: the composite of f then g reverse-maps y to f.reverse_map(g.reverse_map(y)),
\* g's reverse first and f's second, with the options of the call, whatever
\* the nesting of f and g.
C1_ReverseMirrorsForward ==
    (call.op = "reverse" /\ call.self[1] = "DecoratedMapper") =>
        LET f == call.self[2]
            g == call.self[3]
            y == ReverseRef(g, call.arg, call.kwargs)
        IN  {call.res} = Raised(y) \cup UNION { ReverseRef(f, v, call.kwargs) : v \in Returned(y) }

\* C1 witness: a nested composite of reversible mappers whose two outer
\* reverses do not commute reversed a value.
C1_Witness ==
    /\ call.op = "reverse"
    /\ call.self[1] = "DecoratedMapper"
    /\ LeafCount(call.self) = 3
    /\ Reversible(call.self)
    /\ IsOk(call.res)
    /\ LET f == call.self[2]
           g == call.self[3]
           x == ReverseRef(f, call.arg, call.kwargs)
       IN  call.res \notin
               Raised(x) \cup UNION { ReverseRef(g, v, call.kwargs) : v \in Returned(x) }

\* The mapper `next` resolves to: the instance itself, or what the class or
\* the factory returns.
Resolved(next, mapper_args) ==
    IF IsMapper(next) THEN Ok(next)
    ELSE IF Callable(next) THEN Instantiate(next, mapper_args)
    ELSE Raise("not callable")

\* C2: f.chain(next).map(x) is g.map(f.map(x)) for the mapper g that next
\* resolves to, both steps with the options of the call; chain raises
\* TypeError when next is not callable or resolves to no Mapper.
C2_ChainMapsForward ==
    /\ built.via = "chain" =>
           /\ IsOk(Resolved(built.next, built.args))
           /\ IsMapper(Resolved(built.next, built.args)[2])
    /\ (call.op = "map" /\ built.via = "chain") =>
           LET g == Resolved(built.next, built.args)[2]
               y == MapRef(built.first, call.arg, call.kwargs)
           IN  call.res \in
                   Raised(y) \cup UNION { MapRef(g, v, call.kwargs) : v \in Returned(y) }
    /\ call.op = "chain" =>
           LET g == Resolved(call.arg, call.args)
           IN  (~Callable(call.arg) \/ (IsOk(g) /\ ~IsMapper(g[2])))
                   => call.res = Raise("TypeError")

\* C2 witness: a mapper chained from a factory mapped a value, the options
\* of the call reaching the second step.
C2_Witness ==
    /\ call.op = "map"
    /\ built.via = "chain"
    /\ built.next = <<"factory", OffsetMapper>>
    /\ call.kwargs["x"] # Absent
    /\ IsOk(call.res)

\* The other nesting of a composite of three or more leaves.
Regrouped(m) ==
    IF m[2][1] = "DecoratedMapper"
    THEN <<"DecoratedMapper", m[2][2], <<"DecoratedMapper", m[2][3], m[3]>> >>
    ELSE <<"DecoratedMapper", <<"DecoratedMapper", m[2], m[3][2]>>, m[3][3]>>

\* C3: chain(chain(f,g),h) and chain(f,chain(g,h)) have the same forward
\* outcomes and the same reverse outcomes, values and failures alike.
C3_Associative ==
    (call.op \in {"map", "reverse"} /\ LeafCount(call.self) >= 3) =>
        LET m == call.self
            alt == Regrouped(m)
        IN  IF call.op = "map"
            THEN /\ call.res \in map_item(alt, call.arg, call.kwargs)
                 /\ map_item(alt, call.arg, call.kwargs) = MapRef(m, call.arg, call.kwargs)
            ELSE /\ call.res \in reverse_map(alt, call.arg, call.kwargs)
                 /\ reverse_map(alt, call.arg, call.kwargs)
                        = ReverseRef(m, call.arg, call.kwargs)

\* C3 witness: a left-nested composite of three leaves was reversed and its
\* middle step failed.
C3_Witness ==
    /\ call.op = "reverse"
    /\ LeafCount(call.self) = 3
    /\ call.self[2][1] = "DecoratedMapper"
    /\ call.res = Raise("ZeroDivisionError")
    /\ IsOk(CHOOSE r \in reverse_map(call.self[3], call.arg, call.kwargs) : TRUE)

\* C4 as stated: a mapper with no reverse function, a composite holding one
\* included, raises NotImplementedError on every reverse_map call and never
\* on map.
C4_Original ==
    /\ (call.op = "reverse" /\ HasNoReverse(call.self))
           => call.res = Raise("NotImplementedError")
    /\ (call.op = "map" /\ HasNoReverse(call.self))
           => call.res # Raise("NotImplementedError")

\* The index of the last leaf of m that has no reverse function.
LastIrreversible(m) ==
    CHOOSE i \in 1..Len(LeavesOf(m)) :
        /\ Irreversible(LeavesOf(m)[i])
        /\ \A j \in (i + 1)..Len(LeavesOf(m)) : ~Irreversible(LeavesOf(m)[j])

\* C4 amended: reverse_map of a mapper with no reverse function never returns
\* a value; it raises NotImplementedError, unless a reversible step after
\* its last irreversible leaf, reversed earlier, raised first: then that
\* error is the outcome.  map never raises NotImplementedError.
C4_NoReverseRaises ==
    /\ (call.op = "reverse" /\ HasNoReverse(call.self)) =>
           LET ls == LeavesOf(call.self)
               k == LastIrreversible(call.self)
               before == FoldReverse(ls, Len(ls), k + 1, {Ok(call.arg)}, call.kwargs)
           IN  /\ ~IsOk(call.res)
               /\ \A r \in before :
                      call.res = IF IsOk(r) THEN Raise("NotImplementedError") ELSE r
    /\ (call.op = "map" /\ HasNoReverse(call.self))
           => call.res # Raise("NotImplementedError")

\* C4 witness: a composite reversed its reversible last step and then raised
\* NotImplementedError at the leaf that has no reverse.
C4_Witness ==
    /\ call.op = "reverse"
    /\ LeafCount(call.self) >= 2
    /\ HasNoReverse(call.self)
    /\ LastIrreversible(call.self) < Len(LeavesOf(call.self))
    /\ call.res = Raise("NotImplementedError")

\* collections.abc: the mappings, the sequences and the sets among the values.
IsMapping(v) == v[1] = "dict"
IsSequenceOrSet(v) == v[1] \in {"list", "tuple", "str", "set", "frozenset"}

\* C9 as stated: the argument normalizer returns ((), defaults overridden by
\* item) for every mapping, (item's elements, defaults) for every sequence
\* or set, raises TypeError for every other input, and leaves item as it was.
C9_Original ==
    (call.op = "map" /\ call.self = ToFunctionArgsMapper) =>
        /\ IsMapping(call.arg) =>
               call.res = Ok(Arguments(<<>>, DictUpdate(call.kwargs, call.arg[2])))
        /\ IsSequenceOrSet(call.arg) =>
               \E s \in Iterations(call.arg) : call.res = Ok(Arguments(s, call.kwargs))
        /\ (~IsMapping(call.arg) /\ ~IsSequenceOrSet(call.arg))
               => call.res = Raise("TypeError")
        /\ call.after = call.arg

\* C9 amended: the normalizer returns ((), defaults overridden by item) for
\* every dict, (item's elements, defaults) for every tuple, list or set,
\* raises TypeError for every other input, a str and a frozenset included,
\* and leaves item as it was.
C9_ArgumentNormalizer ==
    (call.op = "map" /\ call.self = ToFunctionArgsMapper) =>
        /\ call.arg[1] = "dict" =>
               call.res = Ok(Arguments(<<>>, DictUpdate(call.kwargs, call.arg[2])))
        /\ call.arg[1] \in {"tuple", "list", "set"} =>
               \E s \in Iterations(call.arg) : call.res = Ok(Arguments(s, call.kwargs))
        /\ call.arg[1] \notin {"dict", "tuple", "list", "set"}
               => call.res = Raise("TypeError")
        /\ call.after = call.arg

\* C9 witness: a dict whose key is also a default was normalized, the
\* item's entry winning.
C9_Witness ==
    /\ call.op = "map"
    /\ call.self = ToFunctionArgsMapper
    /\ call.arg[1] = "dict"
    /\ call.kwargs["x"] # Absent
    /\ call.arg[2]["x"] # Absent
    /\ call.arg[2]["x"] # call.kwargs["x"]
    /\ IsOk(call.res)
    /\ call.res[2][2][2][2]["x"] = call.arg[2]["x"]

----------------------------------------------------------------------------
(* Claims on MappedRepository (Spec). *)

ItemOps == {"add", "update", "replace", "get_by_id"}
HasBegun(k) == k.pc # "idle"
Done(k) == k.pc = "done"

\* The input mappers an operation owes its caller, in the order of its
\* arguments: <<name, mapper, argument>>.
InputSteps(k) ==
    LET id == <<"id_mapper", adapter.id_mapper, k.item_id>>
    IN  CASE k.op = "add" -> << <<"create_mapper", adapter.create_mapper, k.payload>> >>
          [] k.op = "update" -> <<id, <<"update_mapper", adapter.update_mapper, k.payload>> >>
          [] k.op = "replace" -> <<id, <<"replace_mapper", adapter.replace_mapper, k.payload>> >>
          [] k.op \in {"get_by_id", "remove"} -> <<id>>
          [] OTHER -> <<>>

\* The outcome of input step i of call k.
StepOutcome(k, i) ==
    CHOOSE r \in MapRef(InputSteps(k)[i][2], InputSteps(k)[i][3], NoKwargs) : TRUE

AllInputsMap(k) == \A i \in 1..Len(InputSteps(k)) : IsOk(StepOutcome(k, i))

\* The request of call k when each of its arguments went through its own
\* input mapper.
OwnRequest(k) ==
    LET mapped(name) ==
            IF \E i \in 1..Len(InputSteps(k)) : InputSteps(k)[i][1] = name
            THEN StepOutcome(k, CHOOSE i \in 1..Len(InputSteps(k)) :
                                    InputSteps(k)[i][1] = name)[2]
            ELSE None
        payload == IF k.op = "add" THEN mapped("create_mapper")
                   ELSE IF k.op = "update" THEN mapped("update_mapper")
                   ELSE IF k.op = "replace" THEN mapped("replace_mapper")
                   ELSE None
    IN  Request(k.op, mapped("id_mapper"), payload, k.offset, k.size, k.kwargs)

\* C5 as stated: a call that ends in failure leaves no effect on the
\* underlying repository.
C5_Original ==
    \A t \in Tasks : (Done(tasks[t]) /\ ~IsOk(tasks[t].result)) => ~tasks[t].wrote

\* C5 amended: the first failure ends the call.  A call that fails at an
\* input mapper never reached the underlying repository, and one whose
\* delegated call fails leaves no effect; a call whose delegated call
\* succeeded and whose item mapper then fails ends in that failure with the
\* effect of the delegated call in place.  A call that succeeds had every
\* mapping and its delegated call succeed.
C5_FirstFailureAborts ==
    \A t \in Tasks :
        LET k == tasks[t]
        IN  /\ (Done(k) /\ ~IsOk(k.result)) =>
                   /\ k.request = NoRequest => (~k.wrote /\ k.response = Pending)
                   /\ (k.request # NoRequest /\ ~IsOk(k.response)) => ~k.wrote
                   /\ k.wrote =>
                          /\ IsOk(k.response)
                          /\ k.op \in ItemOps
                          /\ k.log[Len(k.log)] = Called("item_mapper", k.response[2])
                          /\ k.result \in MapRef(adapter.item_mapper, k.response[2], NoKwargs)
            /\ (Done(k) /\ IsOk(k.result)) =>
                   (AllInputsMap(k) /\ k.request # NoRequest /\ IsOk(k.response))

\* C5 witness: an add took effect in the underlying repository and the call
\* then failed at the item mapper.
C5_Witness ==
    \E t \in Tasks :
        /\ Done(tasks[t])
        /\ tasks[t].op = "add"
        /\ ~IsOk(tasks[t].result)
        /\ tasks[t].wrote

\* C6: an item-returning operation calls each of its input mappers once on
\* the caller's argument, then the underlying operation once with the
\* mapped arguments, then item_mapper once on the underlying result, in
\* that order and in the forward direction; a call that returns made all
\* of these calls.
C6_CallOrder ==
    \A t \in Tasks :
        LET k == tasks[t]
            n == Len(InputSteps(k))
        IN  (HasBegun(k) /\ k.op \in ItemOps) =>
                /\ Len(k.log) <= n + 2
                /\ \A i \in 1..n : i <= Len(k.log) =>
                       k.log[i] = Called(InputSteps(k)[i][1], InputSteps(k)[i][3])
                /\ Len(k.log) > n =>
                       /\ AllInputsMap(k)
                       /\ k.log[n + 1] = Called("repository", OwnRequest(k))
                       /\ k.request = OwnRequest(k)
                /\ Len(k.log) > n + 1 =>
                       /\ IsOk(k.response)
                       /\ k.log[n + 2] = Called("item_mapper", k.response[2])
                /\ k.pc \in {"awaiting", "responded"} => Len(k.log) = n + 1
                /\ (Done(k) /\ IsOk(k.result)) =>
                       /\ Len(k.log) = n + 2
                       /\ k.result \in MapRef(adapter.item_mapper, k.response[2], NoKwargs)

\* C6 witness: an update returned an item.
C6_Witness ==
    \E t \in Tasks :
        /\ Done(tasks[t])
        /\ tasks[t].op = "update"
        /\ IsOk(tasks[t].result)
        /\ Len(tasks[t].log) = 4

\* The first input step of call k that raises, 0 when none does.
FirstFailing(k) ==
    IF AllInputsMap(k) THEN 0
    ELSE CHOOSE i \in 1..Len(InputSteps(k)) :
             /\ ~IsOk(StepOutcome(k, i))
             /\ \A j \in 1..(i - 1) : IsOk(StepOutcome(k, j))

\* C7: an error of an input mapper, of the underlying repository or of the
\* item mapper is the outcome of the call as it was raised, and no later
\* step runs: no delegated call after a failing input mapper, no item
\* mapper after a failing delegated call.
C7_ErrorsPropagate ==
    \A t \in Tasks :
        LET k == tasks[t]
            n == Len(InputSteps(k))
            f == FirstFailing(k)
        IN  HasBegun(k) =>
                /\ f # 0 =>
                       /\ Done(k)
                       /\ k.result = StepOutcome(k, f)
                       /\ Len(k.log) = f
                       /\ k.request = NoRequest
                       /\ k.response = Pending
                /\ (f = 0 /\ Done(k) /\ ~IsOk(k.response)) =>
                       /\ k.result = k.response
                       /\ Len(k.log) = n + 1
                /\ (f = 0 /\ Done(k) /\ IsOk(k.response) /\ k.op \in ItemOps
                      /\ \E r \in MapRef(adapter.item_mapper, k.response[2], NoKwargs) : ~IsOk(r))
                       => k.result \in MapRef(adapter.item_mapper, k.response[2], NoKwargs)
                /\ (f = 0 /\ Done(k) /\ IsOk(k.response) /\ k.op = "get_list" /\ ~IsOk(k.result))
                       => \E i \in 1..Len(k.response[2][2]) :
                              /\ k.result \in MapRef(adapter.item_mapper, k.response[2][2][i],
                                                     NoKwargs)
                              /\ Len(k.log) = 1 + i
                              /\ \A j \in 1..(i - 1) :
                                     \A r \in MapRef(adapter.item_mapper, k.response[2][2][j],
                                                     NoKwargs) : IsOk(r)

\* C7 witness: get_by_id of an id the underlying repository does not hold
\* ended in ItemNotFound.
C7_Witness ==
    \E t \in Tasks :
        /\ Done(tasks[t])
        /\ tasks[t].op = "get_by_id"
        /\ tasks[t].response = Raise("ItemNotFound")
        /\ tasks[t].result = Raise("ItemNotFound")

ExpectedReturn(k, response) ==
    IF ~IsOk(response) THEN {response}
    ELSE IF k.op \in ItemOps THEN MapRef(adapter.item_mapper, response[2], NoKwargs)
    ELSE IF k.op = "get_list"
    THEN { r.result : r \in MapEach(adapter, response[2][2], 1, <<>>, <<>>) }
    ELSE IF k.op = "remove" THEN {Ok(None)}
    ELSE {response}

\* C10: in every step of every interleaving the adapter keeps its repository
\* and its five mappers; the underlying repository is handed the call's own
\* mapped arguments; a call that resumes ends in item_mapper of the response
\* to its own request; and no step of one call touches another call.
C10_Isolation ==
    [][ /\ adapter' = adapter
        /\ \A t \in Tasks :
              /\ tasks'[t] # tasks[t] => \A u \in Tasks \ {t} : tasks'[u] = tasks[u]
              /\ (tasks[t].pc = "awaiting" /\ tasks'[t].pc = "responded") =>
                     /\ tasks[t].request = OwnRequest(tasks[t])
                     /\ tasks'[t].response
                            = Repository_serve(store, OwnRequest(tasks[t])).response
              /\ (tasks[t].pc = "responded" /\ tasks'[t].pc = "done") =>
                     tasks'[t].result \in ExpectedReturn(tasks[t], tasks[t].response)
      ]_vars

\* C10 witness: of two calls in flight together the later one, a replace,
\* was served first, and the earlier one, a get_by_id, returned the
\* replaced item.
C10_Witness ==
    /\ Done(tasks[1]) /\ Done(tasks[2])
    /\ tasks[1].op = "get_by_id"
    /\ tasks[2].op = "replace"
    /\ IsOk(tasks[1].result)
    /\ IsOk(tasks[2].result)
    /\ tasks[1].response = Ok(PyInt(2))
    /\ tasks[2].response = Ok(PyInt(2))

====
